---------------------------- MODULE Spec2Model ----------------------------
(***************************************************************************)
(* The greeting script of wkillerud/autoformat: the value providers hello  *)
(* and world, and the composer greet, in its plain variant (src/main.mjs)  *)
(* and its typed variant (main.ts).                                        *)
(*                                                                         *)
(* A state is one node process executing one variant of the script: the    *)
(* module's imports are evaluated in order, the module body calls greet()  *)
(* once, and the process exits.  Under Spec a caller inside the module may *)
(* in addition call greet with a value of its own before the process       *)
(* exits; under ScriptSpec the program is exactly the script as written.   *)
(***************************************************************************)
EXTENDS Integers, Sequences, FiniteSets

(* Bounds of the model. *)
MaxRuns == 4        \* processes launched in one behaviour
MaxCalls == 1       \* greet calls a caller adds after the module body's own

----------------------------------------------------------------------------
(* JavaScript values.  Every value has the same shape so that any two can  *)
(* be compared: t is the type tag, v the text of a string, o the own       *)
(* properties of an object (a property that is absent reads undefined, so  *)
(* absent and undefined are one case).                                     *)

Fields == {"greeting", "hello", "name"}

(* The value of a property that is absent, or present and undefined. *)
Absent == [t |-> "undefined", v |-> ""]

NoProps == [f \in Fields |-> Absent]

Undefined == [t |-> "undefined", v |-> "", o |-> NoProps]

Null == [t |-> "null", v |-> "", o |-> NoProps]

Str(s) == [t |-> "string", v |-> s]

Obj(props) == [t |-> "object", v |-> "", o |-> props]

(* The texts callers put in the fields of a greeting record. *)
WordTexts == {"", "Hi"}

NameTexts == {"", "Alice"}

FieldValues(f) ==
    {Absent}
        \cup {Str(s) : s \in IF f = "name" THEN NameTexts ELSE WordTexts}

Records == {p \in [Fields -> UNION {FieldValues(f) : f \in Fields}] :
              \A f \in Fields : p[f] \in FieldValues(f)}

(* What a caller may pass to greet: nothing (undefined), null, or a record *)
(* with any of the three fields present.                                   *)
Inputs == {Undefined, Null} \cup {Obj(p) : p \in Records}

Variants == {"mjs", "ts"}

----------------------------------------------------------------------------
VARIABLES
    run,        \* how many processes have been launched
    variant,    \* which variant of the script this process runs
    pc,         \* position of the process in the module's evaluation
    hello,      \* the binding imported from ./hello
    world,      \* the binding imported from ./world
    input,      \* the value a caller holds and is about to pass to greet
    args,       \* the arguments of the greet calls of this process, in order
    stdout,     \* the lines this process has written to standard output
    result,     \* what the last greet call returned
    built,      \* default records constructed by this process
    exitCode,   \* exit status of the process, -1 while it runs
    memo        \* an earlier greet call (of any process) kept for comparison

vars == <<run, variant, pc, hello, world, input, args, stdout, result, built,
          exitCode, memo>>

Uninitialized == [t |-> "uninitialized", v |-> ""]

NoLine == [style |-> "", text |-> ""]

NoMemo == [run |-> 0, variant |-> "none", arg |-> Undefined, threw |-> FALSE,
           line |-> NoLine]

----------------------------------------------------------------------------
(* The providers. *)

(* hello.mjs with the word in lower case. *)
HelloLowercase == Str("hello")

(* export const hello = 'Hello'; *)
helloValue == Str("Hello")

(* export const world = 'World'; *)

worldValue == Str("World")

----------------------------------------------------------------------------
(* greet *)

(* Both variants reading the word from the property greeting. *)
WordFieldSame(v) == "greeting"

(* The property of the greeting record that holds the greeting word:       *)
(* greeting in the plain variant, hello in the typed one.                  *)
WordField(v) == IF v = "mjs" THEN "greeting" ELSE "hello"

(* A default record that is built once and shared by the calls, its        *)
(* fields gone once a call has used it.                                    *)
DefaultRecordConsumed ==
    Obj([f \in Fields |->
           IF built > 0 THEN Absent
           ELSE IF f = (IF variant = "mjs" THEN "greeting" ELSE "hello") THEN hello
           ELSE IF f = "name" THEN world
           ELSE Absent])

(* The default value of the parameter, evaluated when the argument is      *)
(* undefined: a new record of the two imported bindings.                   *)
DefaultRecord ==
    Obj([f \in Fields |->
           IF f = WordField(variant) THEN hello
           ELSE IF f = "name" THEN world
           ELSE Absent])

(* A default that also replaces null. *)
ParamOrNull(a) == IF a.t \in {"undefined", "null"} THEN DefaultRecord ELSE a

(* Parameter initialisation: the default replaces an undefined argument    *)
(* and nothing else.                                                       *)
Param(a) == IF a.t = "undefined" THEN DefaultRecord ELSE a

(* Destructuring null throws a TypeError. *)
Throws(p) == p.t = "null"

(* A binding that falls back to the provider when the property is falsy   *)
(* (absent or the empty text).                                             *)
DestructureOrDefault(p, f) ==
    IF p.o[f].t = "undefined" \/ p.o[f] = Str("")
    THEN (IF f = "name" THEN world ELSE hello)
    ELSE p.o[f]

(* A binding with a default per property: an absent property takes the     *)
(* provider's value.                                                       *)
DestructureWithDefault(p, f) ==
    IF p.o[f].t = "undefined"
    THEN (IF f = "name" THEN world ELSE hello)
    ELSE p.o[f]

(* Destructuring { greeting, name } (plain) or { hello, name } (typed):    *)
(* each name is bound to the property's value, undefined when absent.      *)
Destructure(p, f) == p.o[f]

(* String conversion of a substitution in a template literal. *)
ToString(x) == IF x.t = "undefined" THEN "undefined" ELSE x.v

(* The template without the space after the comma. *)
TemplateNoSpace(g, n) == ToString(g) \o "," \o ToString(n)

(* `${greeting}, ${name}` *)
Template(g, n) == ToString(g) \o ", " \o ToString(n)

(* chalk.bgMagenta: the text with the magenta background style. *)
bgMagenta(s) == [style |-> "bgMagenta", text |-> s]

(* A log that writes the line twice. *)
LogTwice(out, line) == Append(Append(out, line), line)

(* console.log: one line appended to standard output. *)
Log(out, line) == Append(out, line)

(* The line greet writes for the parameter value p. *)
Line(p) ==
    bgMagenta(Template(Destructure(p, WordField(variant)),
                       Destructure(p, "name")))

(* What is kept of a call for later comparison. *)
Remember(a) ==
    [run |-> run, variant |-> variant, arg |-> a, threw |-> Throws(Param(a)),
     line |-> IF Throws(Param(a)) THEN NoLine ELSE Line(Param(a))]

(* A greet that writes the providers' values into the absent fields of the *)
(* record it was given, and keeps no-input calls on one shared default.    *)
GreetFilling(a, next) ==
    /\ args' = Append(args, a)
    /\ built' = built
    /\ memo' \in {memo, Remember(a)}
    /\ IF Throws(Param(a))
       THEN /\ pc' = "crashed"
            /\ exitCode' = 1
            /\ UNCHANGED <<stdout, result, input>>
       ELSE /\ stdout' = Log(stdout, Line(Param(a)))
            /\ result' = Undefined
            /\ pc' = next
            /\ input' = IF a.t = "object"
                        THEN Obj([f \in Fields |-> DestructureWithDefault(a, f)])
                        ELSE input
            /\ UNCHANGED exitCode
    /\ UNCHANGED <<run, variant, hello, world>>

(* One call greet(a) made from position pc, returning to position next.    *)
(* A TypeError thrown by the destructuring is caught nowhere: the process  *)
(* ends with status 1 and has written nothing for this call.               *)
Greet(a, next) ==
    /\ args' = Append(args, a)
    /\ built' = IF a.t = "undefined" THEN built + 1 ELSE built
    /\ memo' \in {memo, Remember(a)}
    /\ IF Throws(Param(a))
       THEN /\ pc' = "crashed"
            /\ exitCode' = 1
            /\ UNCHANGED <<stdout, result>>
       ELSE /\ stdout' = Log(stdout, Line(Param(a)))
            /\ result' = Undefined
            /\ pc' = next
            /\ UNCHANGED exitCode
    /\ UNCHANGED <<run, variant, hello, world, input>>

----------------------------------------------------------------------------
(* The process. *)

Fresh(v) ==
    /\ variant' = v
    /\ pc' = "boot"
    /\ hello' = Uninitialized
    /\ world' = Uninitialized
    /\ input' = Undefined
    /\ args' = <<>>
    /\ stdout' = <<>>
    /\ result' = Undefined
    /\ built' = 0
    /\ exitCode' = -1

Init ==
    /\ run = 1
    /\ variant \in Variants
    /\ pc = "boot"
    /\ hello = Uninitialized
    /\ world = Uninitialized
    /\ input = Undefined
    /\ args = <<>>
    /\ stdout = <<>>
    /\ result = Undefined
    /\ built = 0
    /\ exitCode = -1
    /\ memo = NoMemo

(* import chalk from 'chalk' *)
ImportChalk ==
    /\ pc = "boot"
    /\ pc' = "chalk"
    /\ UNCHANGED <<run, variant, hello, world, input, args, stdout, result,
                   built, exitCode, memo>>

(* import { hello } from './hello': the module is evaluated, hello is set. *)
ImportHello ==
    /\ pc = "chalk"
    /\ hello' = helloValue
    /\ pc' = "hello"
    /\ UNCHANGED <<run, variant, world, input, args, stdout, result, built,
                   exitCode, memo>>

(* import { world } from './world' *)
ImportWorld ==
    /\ pc = "hello"
    /\ world' = worldValue
    /\ pc' = "world"
    /\ UNCHANGED <<run, variant, hello, input, args, stdout, result, built,
                   exitCode, memo>>

(* A module body that calls greet() twice. *)
MainTwice ==
    /\ pc = "world"
    /\ args' = <<Undefined, Undefined>>
    /\ built' = built + 2
    /\ stdout' = Log(Log(stdout, Line(Param(Undefined))), Line(Param(Undefined)))
    /\ result' = Undefined
    /\ pc' = "main"
    /\ UNCHANGED <<run, variant, hello, world, input, exitCode, memo>>

(* The module body's last statement: greet(); *)
Main ==
    /\ pc = "world"
    /\ Greet(Undefined, "main")

(* A caller in the module takes a value to pass to greet. *)
Prepare(a) ==
    /\ pc = "main"
    /\ Len(args) < 1 + MaxCalls
    /\ input' = a
    /\ pc' = "ready"
    /\ UNCHANGED <<run, variant, hello, world, args, stdout, result, built,
                   exitCode, memo>>

(* greet(input) *)
Call ==
    /\ pc = "ready"
    /\ Greet(input, "main")

(* The module body has run to its end: the process exits with status 0. *)
Exit ==
    /\ pc = "main"
    /\ pc' = "exited"
    /\ exitCode' = 0
    /\ UNCHANGED <<run, variant, hello, world, input, args, stdout, result,
                   built, memo>>

(* The program is run again, as a new process. *)
Launch(v) ==
    /\ pc \in {"exited", "crashed"}
    /\ run < MaxRuns
    /\ run' = run + 1
    /\ Fresh(v)
    /\ UNCHANGED memo

Step == ImportChalk \/ ImportHello \/ ImportWorld \/ Main \/ Exit

ScriptNext ==
    \/ ImportChalk
    \/ ImportHello
    \/ ImportWorld
    \/ Main
    \/ Exit
    \/ \E v \in Variants : Launch(v)

Next ==
    \/ ImportChalk
    \/ ImportHello
    \/ ImportWorld
    \/ Main
    \/ \E a \in Inputs : Prepare(a)
    \/ Call
    \/ Exit
    \/ \E v \in Variants : Launch(v)

(* greet called by any caller of the module. *)
Spec == Init /\ [][Next]_vars

(* The script as written: a started process runs to its end. *)
ScriptSpec == Init /\ [][ScriptNext]_vars /\ WF_vars(Step)

----------------------------------------------------------------------------
(* Properties.  The calls of the running process are numbered 1..Len(args) *)
(* in the order they were made; call i completed and wrote stdout[i] iff   *)
(* i <= Len(stdout).                                                       *)

Calls == 1..Len(args)

Completed(i) == i <= Len(stdout)

(* The record { greeting: w, name: n } *)
GreetingRecord(w, n) ==
    Obj([f \in Fields |->
           IF f = "greeting" THEN w ELSE IF f = "name" THEN n ELSE Absent])

(* The record { hello: w, name: n } *)
HelloRecord(w, n) ==
    Obj([f \in Fields |->
           IF f = "hello" THEN w ELSE IF f = "name" THEN n ELSE Absent])

(* C1: every call of greet with no input, in either variant, completes and *)
(* writes the highlighted line whose content is exactly "Hello, World".    *)
C1_NoInputWritesHelloWorld ==
    \A i \in Calls :
        args[i] = Undefined =>
            /\ Completed(i)
            /\ stdout[i] = [style |-> "bgMagenta", text |-> "Hello, World"]

C1_Witness ==
    /\ variant = "ts"
    /\ Len(stdout) = 2
    /\ args[2] = Undefined

(* C2: in the plain variant a call with a record whose greeting is the     *)
(* text w and whose name is the text n writes exactly w, then ", ", then   *)
(* n; for { greeting: "Hi", name: "Alice" } that is "Hi, Alice".           *)
C2_ExplicitInputIsFormatted ==
    \A i \in Calls :
        /\ (/\ variant = "mjs"
            /\ args[i].t = "object"
            /\ args[i].o["greeting"].t = "string"
            /\ args[i].o["name"].t = "string")
           => /\ Completed(i)
              /\ stdout[i].text =
                    args[i].o["greeting"].v \o ", " \o args[i].o["name"].v
        /\ (variant = "mjs" /\ args[i] = GreetingRecord(Str("Hi"), Str("Alice")))
           => Completed(i) /\ stdout[i].text = "Hi, Alice"

C2_Witness ==
    /\ variant = "mjs"
    /\ Len(stdout) = 2
    /\ args[2] = GreetingRecord(Str("Hi"), Str("Alice"))

(* C3: every greet call that completes returns undefined, appends exactly  *)
(* one line to standard output and changes nothing else of the process.    *)
C3_OneWriteNothingElse ==
    [][(Len(args') = Len(args) + 1 /\ pc' # "crashed") =>
          /\ Len(stdout') = Len(stdout) + 1
          /\ SubSeq(stdout', 1, Len(stdout)) = stdout
          /\ result' = Undefined
          /\ UNCHANGED <<run, variant, hello, world, input, exitCode>>]_vars

C3_Witness ==
    /\ pc = "main"
    /\ Len(args) = 2
    /\ Len(stdout) = 2
    /\ args[2].t = "object"

(* C4: the outcome of a greet call depends only on the variant and the     *)
(* input: it equals the outcome of any earlier call, of this run or of an  *)
(* earlier run, of the same variant with the same input.                   *)
C4_SameInputSameOutput ==
    /\ \A i \in Calls :
          (memo.variant = variant /\ memo.arg = args[i]) =>
              /\ memo.threw <=> ~Completed(i)
              /\ Completed(i) => stdout[i] = memo.line
    /\ \A i, j \in Calls :
          args[i] = args[j] =>
              /\ Completed(i) <=> Completed(j)
              /\ Completed(i) => stdout[i] = stdout[j]

C4_Witness ==
    /\ memo.run > 0
    /\ memo.run < run
    /\ memo.variant = variant
    /\ Len(stdout) = 2
    /\ args[2] = memo.arg
    /\ args[2].t = "object"

(* C5: in the plain variant a call with { greeting: "", name: "" }         *)
(* completes and writes exactly ", ": no default replaces an empty field.  *)
C5_EmptyFieldsWriteCommaSpace ==
    \A i \in Calls :
        (variant = "mjs" /\ args[i] = GreetingRecord(Str(""), Str(""))) =>
            Completed(i) /\ stdout[i].text = ", "

C5_Witness ==
    /\ variant = "mjs"
    /\ Len(stdout) = 2
    /\ args[2] = GreetingRecord(Str(""), Str(""))

(* C6: a run of the script calls greet at most once, and only with no      *)
(* input; it always reaches its end, and at its end it has called greet    *)
(* exactly once, has written exactly one line and exits with status 0.     *)
C6_ScriptCallsGreetOnceAndExits ==
    /\ [](/\ Len(args) <= 1
          /\ Len(stdout) <= Len(args)
          /\ \A i \in Calls : args[i] = Undefined
          /\ pc # "crashed")
    /\ [](pc = "exited" =>
            /\ args = <<Undefined>>
            /\ Len(stdout) = 1
            /\ exitCode = 0)
    /\ (pc = "boot" ~> pc = "exited")

C6_Witness ==
    /\ run = 2
    /\ pc = "exited"
    /\ Len(stdout) = 1

(* C7, as claimed: every call with a missing or malformed input (no        *)
(* input, null, or a record without one of the variant's two fields) fails *)
(* to complete, and no other call fails.                                   *)
Malformed(a) ==
    \/ a.t # "object"
    \/ a.o[WordField(variant)].t # "string"
    \/ a.o["name"].t # "string"

C7_MissingOrMalformedInputFaults ==
    \A i \in Calls : Malformed(args[i]) <=> ~Completed(i)

(* C7, amended: among the inputs undefined, null and records of text       *)
(* fields, a call fails iff its input is null.  The failing call writes    *)
(* nothing, is the last call of its process, and the process ends with     *)
(* status 1; every other call completes.                                   *)
C7_OnlyNullFaults ==
    /\ \A i \in Calls : ~Completed(i) <=> args[i] = Null
    /\ pc = "crashed" =>
          /\ exitCode = 1
          /\ Len(args) = Len(stdout) + 1
          /\ args[Len(args)] = Null
    /\ pc # "crashed" => Len(args) = Len(stdout)

C7_Witness ==
    /\ pc = "crashed"
    /\ Len(args) = 2
    /\ Len(stdout) = 1

(* C8: a greet call assigns neither provider binding and leaves the        *)
(* caller's record as it was; a call with no input constructs one new      *)
(* default record, a call with an input constructs none.                   *)
C8_NothingMutatedDefaultBuiltFresh ==
    [][Len(args') > Len(args) =>
          /\ hello' = hello
          /\ world' = world
          /\ input' = input
          /\ built' = built + (IF args'[Len(args')] = Undefined THEN 1 ELSE 0)
      ]_vars

C8_Witness ==
    /\ pc = "main"
    /\ Len(stdout) = 2
    /\ input.t = "object"
    /\ input = args[2]
    /\ input.o["name"] = Absent
    /\ built = 1
    /\ hello = helloValue
    /\ world = worldValue

(* C9: the default replaces the input as a whole.  "Hello, World" is       *)
(* written iff the input is undefined; a record with only one of the       *)
(* variant's two fields still completes, with the missing field written as *)
(* "undefined" and not as the provider's value.                            *)
C9_DefaultIsNotPerField ==
    \A i \in Calls :
        /\ (Completed(i) /\ stdout[i].text = "Hello, World")
              <=> args[i] = Undefined
        /\ (/\ args[i].t = "object"
            /\ args[i].o[IF variant = "mjs" THEN "greeting" ELSE "hello"].t = "string"
            /\ args[i].o["name"] = Absent)
           => /\ Completed(i)
              /\ stdout[i].text =
                    args[i].o[IF variant = "mjs" THEN "greeting" ELSE "hello"].v
                        \o ", undefined"
        /\ (/\ args[i].t = "object"
            /\ args[i].o[IF variant = "mjs" THEN "greeting" ELSE "hello"] = Absent
            /\ args[i].o["name"].t = "string")
           => /\ Completed(i)
              /\ stdout[i].text = "undefined, " \o args[i].o["name"].v

C9_Witness ==
    /\ variant = "mjs"
    /\ Len(stdout) = 2
    /\ args[2] = GreetingRecord(Str("Hi"), Absent)
    /\ stdout[2].text = "Hi, undefined"

(* C10, as claimed: the typed variant, called with no input or with a      *)
(* record { greeting: w, name: n }, writes the line the plain variant      *)
(* writes for the same input.                                              *)
C10_VariantsEquivalentOnSameInput ==
    \A i \in Calls :
        (/\ memo.variant = "mjs"
         /\ variant = "ts"
         /\ memo.arg = args[i]
         /\ \/ args[i] = Undefined
            \/ /\ args[i].t = "object"
               /\ args[i].o["greeting"].t = "string"
               /\ args[i].o["name"].t = "string"
               /\ args[i].o["hello"] = Absent)
        => Completed(i) /\ stdout[i] = memo.line

(* C10, amended: the two variants have the same outcome on corresponding   *)
(* inputs, where no input corresponds to no input, null to null, and the   *)
(* plain variant's record with greeting w and name n to the typed          *)
(* variant's record with hello w and name n.                               *)
Corresponds(m, t) ==
    /\ m.t = t.t
    /\ m.t = "object" => m.o["greeting"] = t.o["hello"] /\ m.o["name"] = t.o["name"]

C10_VariantsEquivalentUpToFieldName ==
    \A i \in Calls :
        /\ (memo.variant = "mjs" /\ variant = "ts" /\ Corresponds(memo.arg, args[i]))
           => /\ memo.threw <=> ~Completed(i)
              /\ Completed(i) => stdout[i] = memo.line
        /\ (memo.variant = "ts" /\ variant = "mjs" /\ Corresponds(args[i], memo.arg))
           => /\ memo.threw <=> ~Completed(i)
              /\ Completed(i) => stdout[i] = memo.line

C10_Witness ==
    /\ memo.variant = "mjs"
    /\ variant = "ts"
    /\ memo.arg = GreetingRecord(Str("Hi"), Str("Alice"))
    /\ Len(stdout) = 2
    /\ args[2] = HelloRecord(Str("Hi"), Str("Alice"))
    /\ stdout[2].text = "Hi, Alice"

=============================================================================
